---- MODULE Spec2Model ----
(***************************************************************************)
(* A model of the vector index of the RAG project                          *)
(* (app/services/vector_store.py, class VectorStore) and of the index      *)
(* directory it saves to and loads from.                                   *)
(*                                                                         *)
(* One VectorStore object `vs` is followed through __init__, add, save,    *)
(* load and search.  The index directory `disk` starts as one of a few     *)
(* directories that earlier runs of the same code can leave behind.        *)
(*                                                                         *)
(* Numbers.  Vectors are tuples of small integers.  The stored vectors and *)
(* the queries are taken axis-aligned, so that every norm is an integer    *)
(* and every quotient v/|v| is exact: on these inputs the float32          *)
(* arithmetic of the code is exact and the integer arithmetic below gives  *)
(* the same scores (1.0 is 1, 0.0 is 0).  The 1e-9 added to every norm is  *)
(* absorbed by float32 rounding for a norm >= 1 and only keeps 0/0 from    *)
(* happening for a zero vector (0 / 1e-9 = 0).                             *)
(*                                                                         *)
(* Errors are records [exc, at]: the exception class and the line, in the  *)
(* file of the function modelled, of the statement that raises it.         *)
(*                                                                         *)
(* The other components of the pipeline have specifications of their own:  *)
(* SplitSpec follows one call of split_texts (app/utils/text_splitter.py)  *)
(* statement by statement, EmbedSpec follows EmbeddingsService objects     *)
(* (app/services/embeddings.py) through __init__ and embed, and IngestSpec *)
(* follows two runs of run_ingest (app/pipelines/ingest.py) that share one *)
(* index directory, the writes of save system call by system call.  A     *)
(* text is the sequence of its characters.  The components of an embedding *)
(* are kept as terms (output j of the model for                            *)
(* a text, draw j of the generator seeded from a text): no operation of    *)
(* these components computes with them.  RetrieveSpec follows calls of     *)
(* run_retrieve (app/pipelines/retrieve.py) on index directories whose     *)
(* vectors are numbers, the query being embedded into the same space, so   *)
(* that search ranks them.  MemorySpec follows a ConversationMemory of the *)
(* agent project (app/memory/memory.py) and the file it persists to.       *)
(***************************************************************************)
EXTENDS Integers, Sequences, FiniteSets, TLC

\* Python's None, and the object before __init__ has run.  Both are records,
\* like the values they stand in for.
None == [none |-> TRUE]
Unselected == [backend |-> "Unselected"]

\* Bounds of the model
MaxRows == 2
MaxK == 2

Dims == {1, 2}
Labels == {"A", "B", "C"}

\* The vector of chunk l in an embedding space of width w.  A and B are unit
\* vectors (orthogonal in width 2, equal in width 1); C is not normalized.
Embed(w, l) ==
    IF w = 1 THEN (IF l = "C" THEN <<2>> ELSE <<1>>)
    ELSE (IF l = "A" THEN <<1, 0>> ELSE IF l = "B" THEN <<0, 1>> ELSE <<2, 0>>)

\* A numpy array of shape (Len(rows), w): ndim is 2 for a matrix.
Matrix(w, rows) == [ndim |-> 2, w |-> w, rows |-> rows]
EmbedAll(w, ls) == Matrix(w, [i \in 1..Len(ls) |-> Embed(w, ls[i])])

SeqsUpTo(S, n) == UNION {[1..m -> S] : m \in 0..n}

Error(exc, at) == [exc |-> exc, at |-> at]

----------------------------------------------------------------------------
\* Vector arithmetic

RECURSIVE SumTo(_, _)
SumTo(f, n) == IF n = 0 THEN 0 ELSE f[n] + SumTo(f, n - 1)

Dot(a, b) == SumTo([i \in 1..Len(a) |-> a[i] * b[i]], Len(a))

ISqrt(n) == CHOOSE r \in 0..n : r * r <= n /\ n < (r + 1) * (r + 1)

\* np.linalg.norm
Norm(v) == ISqrt(Dot(v, v))

\* v / (norm(v) + 1e-9)
Normalize(v) == IF Norm(v) = 0 THEN v ELSE [i \in 1..Len(v) |-> v[i] \div Norm(v)]

IsNormalized(v) == Dot(v, v) = 1

\* The orders np.argsort(-sims) and a top-k selection may return: every
\* arrangement of the indices by non-increasing score.  The default sort kind
\* is not stable, so the order among equal scores is not fixed.
Perms(n) == {p \in [1..n -> 1..n] : \A i, j \in 1..n : i # j => p[i] # p[j]}
DescendingOrders(s) ==
    {p \in Perms(Len(s)) : \A i, j \in 1..Len(s) : i < j => s[p[i]] >= s[p[j]]}

Prefix(s, k) == [i \in 1..(IF k < Len(s) THEN k ELSE Len(s)) |-> s[i]]

----------------------------------------------------------------------------
\* File formats

RECURSIVE Flatten(_)
Flatten(rows) == IF rows = <<>> THEN <<>> ELSE Head(rows) \o Flatten(Tail(rows))

Reshape(data, n, w) == [i \in 1..n |-> [j \in 1..w |-> data[(i - 1) * w + j]]]

\* np.save / np.load: the shape, then the values in row-major order
np_save(m) == [shape |-> <<Len(m.rows), m.w>>, data |-> Flatten(m.rows)]
np_load(f) == Matrix(f.shape[2], Reshape(f.data, f.shape[1], f.shape[2]))

\* json.dump / json.load of the list of metadata records
json_dump(metas) == [n |-> Len(metas), items |-> metas]
json_load(f) == [i \in 1..f.n |-> f.items[i]]

----------------------------------------------------------------------------
\* The faiss library, as VectorStore uses it: a flat inner-product index

IndexFlatIP(d) == [d |-> d, xb |-> <<>>]

\* faiss.write_index / faiss.read_index
write_index(ix) == [d |-> ix.d, ntotal |-> Len(ix.xb), codes |-> Flatten(ix.xb)]
read_index(f) == [d |-> f.d, xb |-> Reshape(f.codes, f.ntotal, f.d)]

\* index.search(x, k) for one query row x: the (score, idx) pairs of the k
\* largest inner products in non-increasing order, padded with idx -1 (and the
\* lowest float, here -1000) when the index holds fewer than k vectors.
\* Indices are 1-based here, so a pad is any idx < 1.
faiss_search(ix, x, k) ==
    LET ip == [i \in 1..Len(ix.xb) |-> Dot(ix.xb[i], x)]
    IN  {[j \in 1..k |-> IF j <= Len(p) THEN [score |-> ip[p[j]], idx |-> p[j]]
                         ELSE [score |-> -1000, idx |-> -1]]
            : p \in DescendingOrders(ip)}

----------------------------------------------------------------------------
\* class VectorStore

\* __init__: faiss_ok says whether `import faiss` and IndexFlatIP(dim) succeed
new_store(faiss_ok, dim) ==
    [dim |-> dim,
     faiss_index |-> IF faiss_ok THEN IndexFlatIP(dim) ELSE None,
     metas |-> <<>>,
     vectors |-> None]

Backend(s) ==
    IF s = Unselected THEN "Unselected"
    ELSE IF s.faiss_index # None THEN "Optimized" ELSE "Naive"

\* The stored vectors, whichever backend holds them
StoredRows(s) ==
    IF s.faiss_index # None THEN s.faiss_index.xb
    ELSE IF s.vectors = None THEN <<>> ELSE s.vectors.rows
StoredWidth(s) ==
    IF s.faiss_index # None THEN s.faiss_index.d
    ELSE IF s.vectors = None THEN s.dim ELSE s.vectors.w

\* add: [err, vs] is the exception raised (None: the call returns) and the
\* object after the call
add(s, vectors, metas) ==
    IF vectors.ndim # 2 \/ vectors.w # s.dim
    THEN [err |-> Error("ValueError", 53), vs |-> s]
    ELSE IF Len(metas) # Len(vectors.rows)
    THEN [err |-> Error("ValueError", 55), vs |-> s]
    ELSE LET s1 == [s EXCEPT !.metas = @ \o metas]
         IN  IF s.faiss_index # None
             THEN IF vectors.w # s.faiss_index.d
                  THEN [err |-> Error("AssertionError", 59), vs |-> s1]
                  ELSE [err |-> None,
                        vs |-> [s1 EXCEPT !.faiss_index.xb = @ \o vectors.rows]]
             ELSE IF s.vectors = None
                  THEN [err |-> None, vs |-> [s1 EXCEPT !.vectors = vectors]]
                  ELSE IF s.vectors.w # vectors.w
                       THEN [err |-> Error("ValueError", 64), vs |-> s1]
                       ELSE [err |-> None,
                             vs |-> [s1 EXCEPT !.vectors.rows = @ \o vectors.rows]]

\* save: the directory after the call
save(s, d) ==
    IF s.faiss_index # None
    THEN [d EXCEPT !.exists = TRUE,
                   !.meta_json = json_dump(s.metas),
                   !.index_faiss = write_index(s.faiss_index)]
    ELSE [d EXCEPT !.exists = TRUE,
                   !.meta_json = json_dump(s.metas),
                   !.vectors_npy = np_save(IF s.vectors # None THEN s.vectors
                                           ELSE Matrix(s.dim, <<>>))]

\* load without lines 91-96: meta.json is not read
load_without_meta(s, d) ==
    IF s.faiss_index # None
    THEN [s EXCEPT !.faiss_index = IF d.index_faiss # None
                                   THEN read_index(d.index_faiss) ELSE @]
    ELSE [s EXCEPT !.vectors = IF d.vectors_npy # None
                               THEN np_load(d.vectors_npy)
                               ELSE Matrix(s.dim, <<>>)]

\* load that drops the faiss index when index.faiss is absent
load_drops_index(s, d) ==
    LET m == IF d.meta_json # None THEN json_load(d.meta_json) ELSE <<>>
    IN  IF s.faiss_index # None
        THEN [s EXCEPT !.metas = m,
                       !.faiss_index = IF d.index_faiss # None
                                       THEN read_index(d.index_faiss) ELSE None]
        ELSE [s EXCEPT !.metas = m,
                       !.vectors = IF d.vectors_npy # None
                                   THEN np_load(d.vectors_npy)
                                   ELSE Matrix(s.dim, <<>>)]

\* load: the object after the call
load(s, d) ==
    LET m == IF d.meta_json # None THEN json_load(d.meta_json) ELSE <<>>
    IN  IF s.faiss_index # None
        THEN [s EXCEPT !.metas = m,
                       !.faiss_index = IF d.index_faiss # None
                                       THEN read_index(d.index_faiss) ELSE @]
        ELSE [s EXCEPT !.metas = m,
                       !.vectors = IF d.vectors_npy # None
                                   THEN np_load(d.vectors_npy)
                                   ELSE Matrix(s.dim, <<>>)]

Raise(exc, at) == [err |-> Error(exc, at), result |-> <<>>]
Return(r) == [err |-> None, result |-> r]

\* The shape test without its comparison of the width with dim
QueryShapeOk_without_width(s, q) == q.ndim = 2 /\ Len(q.rows) = 1

\* The shape test of search: query_vec is a (1, dim) matrix
QueryShapeOk(s, q) == q.ndim = 2 /\ Len(q.rows) = 1 /\ q.w = s.dim

\* search, Optimized backend (lines 122-129).  index.search asserts that the
\* query has the width of the index and that k > 0; hits whose idx is a pad
\* or has no metadata record are skipped.
search_faiss(s, q, k) ==
    IF q.w # s.faiss_index.d \/ k <= 0
    THEN {Raise("AssertionError", 123)}
    ELSE {LET kept == SelectSeq(hits, LAMBDA h : ~(h.idx < 1 \/ h.idx > Len(s.metas)))
          IN  Return([i \in 1..Len(kept) |->
                        [score |-> kept[i].score, meta |-> s.metas[kept[i].idx]]])
            : hits \in faiss_search(s.faiss_index, q.rows[1], k)}

\* sims of the NumPy fallback (lines 135-139)
Sims(s, q) ==
    [i \in 1..Len(s.vectors.rows) |->
        Dot(Normalize(s.vectors.rows[i]), Normalize(q.rows[1]))]

\* search, Naive backend (lines 131-141).  The matrix product needs the
\* stored width to be the query's; self._metas[i] needs i to be an index of
\* the metadata list.
search_numpy(s, q, k) ==
    IF s.vectors = None \/ Len(s.metas) = 0
    THEN {Return(<<>>)}
    ELSE IF s.vectors.w # q.w
    THEN {Raise("ValueError", 139)}
    ELSE {LET top_idx == Prefix(p, k)
          IN  IF \E i \in 1..Len(top_idx) : top_idx[i] > Len(s.metas)
              THEN Raise("IndexError", 141)
              ELSE Return([i \in 1..Len(top_idx) |->
                             [score |-> Sims(s, q)[top_idx[i]],
                              meta |-> s.metas[top_idx[i]]]])
            : p \in DescendingOrders(Sims(s, q))}

\* search: the outcomes [err, result] the call can have
search(s, q, k) ==
    IF ~QueryShapeOk(s, q)
    THEN {Raise("ValueError", 120)}
    ELSE IF s.faiss_index # None THEN search_faiss(s, q, k)
    ELSE search_numpy(s, q, k)

\* search, were astype(np.float32) to return its argument when the type is
\* already float32: lines 136 and 138 would divide the caller's query and the
\* stored vectors in place
after_search_in_place(s, q) ==
    IF QueryShapeOk(s, q) /\ s.faiss_index = None
       /\ s.vectors # None /\ Len(s.metas) # 0
    THEN [vs |-> [s EXCEPT !.vectors.rows =
                     [i \in 1..Len(@) |-> Normalize(@[i])]],
          query_vec |-> [q EXCEPT !.rows = <<Normalize(@[1])>>]]
    ELSE [vs |-> s, query_vec |-> q]

\* search: the object and the caller's query_vec after the call.  No line
\* assigns to a field of self; the divisions of lines 136 and 138 are in
\* place, but on the copies that astype made at lines 135 and 137, and faiss
\* is handed a copy too (line 123).
after_search(s, q) == [vs |-> s, query_vec |-> q]

----------------------------------------------------------------------------
\* The index directory

NoDir == [exists |-> FALSE, meta_json |-> None, index_faiss |-> None,
          vectors_npy |-> None]
EmptyDir == [NoDir EXCEPT !.exists = TRUE]

\* What an ingest run leaves in directory d.  With chunks: a new store of
\* the width of the embeddings, one add of all chunks, one save.  Without
\* chunks the run ends before save (it returns at line 36 when there is no
\* document and raises at line 48 or 49 when no document gives a chunk): the
\* directory made at line 30 and whatever it held.
run_ingest(faiss_ok, dim, ls, d) ==
    IF ls = <<>> THEN [d EXCEPT !.exists = TRUE]
    ELSE save(add(new_store(faiss_ok, dim), EmbedAll(dim, ls), ls).vs,
              [d EXCEPT !.exists = TRUE])

\* The directories a VectorStore may be pointed at: none, an empty one, one
\* written by a NumPy run of width 2, one written by a faiss run of width 1,
\* and one written by both kinds of run whose meta.json was removed since.
InitDirs ==
    {NoDir, EmptyDir,
     run_ingest(FALSE, 2, <<"A", "B">>, NoDir),
     run_ingest(TRUE, 1, <<"A", "B">>, NoDir),
     [run_ingest(TRUE, 2, <<"C">>, run_ingest(FALSE, 1, <<"C">>, NoDir))
        EXCEPT !.meta_json = None]}

----------------------------------------------------------------------------
\* Inputs

\* The (vectors, metas) arguments of add: the embeddings of up to MaxRows
\* chunks in either width, with their metadata, with one record too many or
\* one too few; and a 1-D array.
AddArgs ==
    LET Chunks == SeqsUpTo(Labels, MaxRows)
    IN  UNION {
          {[vectors |-> EmbedAll(w, ls), metas |-> ls] : ls \in Chunks}
          \cup {[vectors |-> EmbedAll(w, ls), metas |-> ls \o <<"A">>] : ls \in Chunks}
          \cup {[vectors |-> EmbedAll(w, ls), metas |-> Tail(ls)] : ls \in Chunks \ {<<>>}}
          \cup {[vectors |-> [ndim |-> 1, w |-> w, rows |-> <<Embed(w, "A")>>],
                 metas |-> <<"A">>]}
          : w \in Dims}

\* The query_vec arguments of search: (1, w) matrices, a (2, 2) matrix and a
\* 1-D array
Queries ==
    {Matrix(1, <<<<1>>>>), Matrix(2, <<<<1, 0>>>>), Matrix(2, <<<<0, 1>>>>),
     Matrix(2, <<<<0, 0>>>>), Matrix(2, <<<<1, 0>>, <<0, 1>>>>),
     [ndim |-> 1, w |-> 2, rows |-> <<<<1, 0>>>>]}

----------------------------------------------------------------------------
\* Text (app/utils/text_splitter.py).  A str is the sequence of its
\* characters, each a one-character string.

\* Characters that str.strip() trims (it trims every character for which
\* str.isspace() holds; these are the ones a text of the model can hold)
Whitespace == {" ", "\t", "\n"}

\* Bounds of the splitter's inputs
MaxTextLen == 4
MaxChunkSize == 3

Chars == {"a", " "}
Texts(n) == SeqsUpTo(Chars, n)

\* text[start:end], with Python's treatment of negative and too large indices
PyIndex(i, n) == IF i < 0 THEN (IF i + n < 0 THEN 0 ELSE i + n)
                 ELSE (IF i > n THEN n ELSE i)
PySlice(text, start, end) ==
    LET lo == PyIndex(start, Len(text))
        hi == PyIndex(end, Len(text))
    IN  IF hi <= lo THEN <<>> ELSE SubSeq(text, lo + 1, hi)

\* bool(chunk): the test without strip()
StripNonEmpty_without_strip(chunk) == chunk # <<>>

\* bool(chunk.strip()): some character of the chunk is not whitespace
StripNonEmpty(chunk) == \E i \in 1..Len(chunk) : chunk[i] \notin Whitespace

\* The next window starts where the last one ended
NextStart_without_overlap(end, chunk_overlap) == end

\* line 45: start = end - chunk_overlap
NextStart(end, chunk_overlap) == end - chunk_overlap

\* The tests of lines 30-33 with > for >= in the second one
ParamError_overlap_may_equal(chunk_size, chunk_overlap) ==
    IF chunk_size <= 0 \/ chunk_overlap < 0 THEN Error("ValueError", 31)
    ELSE IF chunk_overlap > chunk_size THEN Error("ValueError", 33)
    ELSE None

\* The tests of lines 30-33 without the second one
ParamError_without_overlap_test(chunk_size, chunk_overlap) ==
    IF chunk_size <= 0 \/ chunk_overlap < 0 THEN Error("ValueError", 31)
    ELSE None

\* The tests of lines 30-33: the error raised, or None
ParamError(chunk_size, chunk_overlap) ==
    IF chunk_size <= 0 \/ chunk_overlap < 0 THEN Error("ValueError", 31)
    ELSE IF chunk_overlap >= chunk_size THEN Error("ValueError", 33)
    ELSE None

Doc(path, text) == [path |-> path, text |-> text]
Chunk(source, content) == [source |-> source, content |-> content]

\* The while loop of lines 41-46 from window start `start` on: the chunks of
\* one document.  (Called with valid parameters only: every call has a larger
\* start.)
RECURSIVE split_doc(_, _, _, _)
split_doc(doc, start, chunk_size, chunk_overlap) ==
    IF ~(start < Len(doc.text)) THEN <<>>
    ELSE LET end == start + chunk_size
             chunk == PySlice(doc.text, start, end)
             rest == split_doc(doc, NextStart(end, chunk_overlap), chunk_size,
                               chunk_overlap)
         IN  IF StripNonEmpty(chunk) THEN <<Chunk(doc.path, chunk)>> \o rest
             ELSE rest

RECURSIVE split_docs(_, _, _)
split_docs(docs, chunk_size, chunk_overlap) ==
    IF docs = <<>> THEN <<>>
    ELSE split_doc(Head(docs), 0, chunk_size, chunk_overlap)
         \o split_docs(Tail(docs), chunk_size, chunk_overlap)

\* split_texts as one call: [err, chunks]
split_texts(docs, chunk_size, chunk_overlap) ==
    IF ParamError(chunk_size, chunk_overlap) # None
    THEN [err |-> ParamError(chunk_size, chunk_overlap), chunks |-> <<>>]
    ELSE [err |-> None, chunks |-> split_docs(docs, chunk_size, chunk_overlap)]

\* The scenario of the specification: "abcdefghijklmno", chunk_size 10,
\* chunk_overlap 2
ScenarioText ==
    <<"a", "b", "c", "d", "e", "f", "g", "h", "i", "j", "k", "l", "m", "n", "o">>
Scenario ==
    [docs |-> <<Doc("d1", ScenarioText)>>, chunk_size |-> 10, chunk_overlap |-> 2]

\* The arguments of split_texts: no document, one document of up to
\* MaxTextLen characters, two documents of at most one character each, with
\* every chunk_size and chunk_overlap from -1 to MaxChunkSize; and the scenario.
SplitArgs ==
    LET lists == {<<>>}
                 \cup {<<Doc("d1", t)>> : t \in Texts(MaxTextLen)}
                 \cup {<<Doc("d1", t), Doc("d2", u)>> : t \in Texts(1), u \in Texts(1)}
    IN  {[docs |-> l, chunk_size |-> cs, chunk_overlap |-> co] :
            l \in lists, cs \in -1..MaxChunkSize, co \in -1..MaxChunkSize}
        \cup {Scenario}

----------------------------------------------------------------------------
\* class EmbeddingsService (app/services/embeddings.py)

\* self.dim = 384
FallbackDim == 384

\* Bound of the model: the number of texts of one embed call
MaxTexts == 2

\* The Sentence-Transformers model that SentenceTransformer(model_name)
\* constructs: d is the width of its embeddings, reports says whether
\* get_sentence_embedding_dimension() returns it (the other case is caught at
\* lines 43-44).  None stands for an import or a construction that raises.
SentenceTransformer(d, reports) == [d |-> d, reports |-> reports]
Models == {None} \cup {SentenceTransformer(d, r) : d \in Dims, r \in BOOLEAN}

\* __init__ without the try of lines 37-48
new_service_without_try(model) ==
    IF model = None
    THEN [err |-> Error("ImportError", 38), svc |-> None]
    ELSE [err |-> None,
          svc |-> [model |-> model,
                   dim |-> IF model.reports THEN model.d ELSE FallbackDim]]

\* __init__: [err, svc], the exception raised (None: the call returns) and
\* the fields of the object
new_service(model) ==
    [err |-> None,
     svc |-> [model |-> model,
              dim |-> IF model # None /\ model.reports THEN model.d
                      ELSE FallbackDim]]

Strategy(svc) == IF svc.model # None THEN "ModelBacked" ELSE "Fallback"

\* model.encode(texts_list, normalize_embeddings=True) as an array: one row of
\* width d per text, component j of the row of text t being the term
\* [model_out |-> t, j |-> j]; for no text, the 1-D array of shape (0,)
encode(model, texts) ==
    IF texts = <<>> THEN [ndim |-> 1, w |-> 0, rows |-> <<>>]
    ELSE Matrix(model.d,
                [i \in 1..Len(texts) |->
                    [j \in 1..model.d |-> [model_out |-> texts[i], j |-> j]]])

\* int(hashlib.md5(t.encode("utf-8")).hexdigest(), 16) % 2**32, written as
\* its eight hexadecimal digits, for the texts of the model
md5_seed(t) ==
    CASE t = <<>> -> "ecf8427e"
      [] t = <<"a">> -> "69772661"
      [] t = <<" ">> -> "e899ec5f"
      [] t = <<"a", "a">> -> "207a4912"
      [] t = <<"a", " ">> -> "c2b57c03"
      [] t = <<" ", "a">> -> "03eac425"
      [] t = <<" ", " ">> -> "515f86af"
      [] t = <<"a", "a", "a">> -> "9ca9f808"
      [] t = <<"a", "a", " ">> -> "9d896b3a"
      [] t = <<"a", " ", "a">> -> "0834a8b0"
      [] t = <<"a", " ", " ">> -> "7590ccc4"
      [] t = <<" ", "a", "a">> -> "53863155"
      [] t = <<" ", "a", " ">> -> "32426f43"
      [] t = <<" ", " ", "a">> -> "9dae785d"
      [] t = <<" ", " ", " ">> -> "0c855e1b"

\* The row of texts[i] when one generator, seeded from the first text,
\* serves the whole call
fallback_row_shared_rng(dim, texts, i) ==
    [j \in 1..dim |->
        [seed |-> md5_seed(texts[1]), draw |-> (i - 1) * dim + j, over |-> dim]]

\* lines 66-71, the row of texts[i]: component j is the term
\* [seed, draw |-> j, over |-> dim], draw j of RandomState(seed) divided by
\* the norm of its first `over` draws plus 1e-9
fallback_row(dim, texts, i) ==
    [j \in 1..dim |-> [seed |-> md5_seed(texts[i]), draw |-> j, over |-> dim]]

\* embed: [err, out], the exception raised (None: the call returns) and the
\* array returned.  np.vstack of an empty list raises ValueError.
embed(svc, texts) ==
    IF svc.model # None
    THEN [err |-> None, out |-> encode(svc.model, texts)]
    ELSE IF texts = <<>>
    THEN [err |-> Error("ValueError", 73), out |-> None]
    ELSE [err |-> None,
          out |-> Matrix(svc.dim, [i \in 1..Len(texts) |->
                                     fallback_row(svc.dim, texts, i)])]

\* The texts arguments of embed: up to MaxTexts texts of at most one character
EmbedArgs == SeqsUpTo(Texts(1), MaxTexts)

----------------------------------------------------------------------------
\* run_ingest (app/pipelines/ingest.py) and load_documents
\* (app/utils/doc_loader.py)

\* A source directory: whether it is a directory and, if so, the
\* {path, text} of its readable .txt and .md files in the order of os.walk
SourceDir(docs) == [isdir |-> TRUE, docs |-> docs]
NoSourceDir == [isdir |-> FALSE, docs |-> <<>>]

\* load_documents without the test of lines 29-30: os.walk of a path that is
\* not a directory yields nothing
load_documents_without_isdir(source) == [err |-> None, docs |-> source.docs]

\* load_documents(source_dir)
load_documents(source) ==
    IF ~source.isdir THEN [err |-> Error("FileNotFoundError", 30), docs |-> <<>>]
    ELSE [err |-> None, docs |-> source.docs]

\* lines 39-50 with the texts of the documents embedded in place of the
\* contents of the chunks
prepare_embeds_documents(docs, a) ==
    LET s == split_texts(docs, a.chunk_size, a.chunk_overlap)
        e == embed(new_service(a.model).svc, [i \in 1..Len(docs) |-> docs[i].text])
    IN  IF s.err # None THEN [err |-> s.err, chunks |-> <<>>, store |-> None]
        ELSE [err |-> add(new_store(a.faiss_ok, e.out.w), e.out, s.chunks).err,
              chunks |-> s.chunks,
              store |-> add(new_store(a.faiss_ok, e.out.w), e.out, s.chunks).vs]

\* lines 39-50 of run_ingest: split, embed, VectorStore(dim=vectors.shape[1]),
\* add.  [err, chunks, store]: the exception raised (None: add has returned),
\* the chunks and the store.
prepare(docs, a) ==
    LET s == split_texts(docs, a.chunk_size, a.chunk_overlap)
        e == embed(new_service(a.model).svc,
                   [i \in 1..Len(s.chunks) |-> s.chunks[i].content])
    IN  IF s.err # None THEN [err |-> s.err, chunks |-> <<>>, store |-> None]
        ELSE IF e.err # None THEN [err |-> e.err, chunks |-> s.chunks, store |-> None]
        ELSE IF e.out.ndim # 2
        THEN [err |-> Error("IndexError", 49), chunks |-> s.chunks, store |-> None]
        ELSE [err |-> add(new_store(a.faiss_ok, e.out.w), e.out, s.chunks).err,
              chunks |-> s.chunks,
              store |-> add(new_store(a.faiss_ok, e.out.w), e.out, s.chunks).vs]

\* save, system call by system call.  A file of the directory is None
\* (absent), the whole output of one json.dump, np.save or write_index (the
\* values of the file formats above), or [bytes]: bytes that are no such
\* output.  Bytes are a sequence of runs, each named by what it holds and
\* never by who wrote it, so that equal bytes are equal values: characters
\* of text, float32 values, zero bytes, the header of a .npy file or of a
\* faiss index, or a part of one header or of one float32.
\* open(path, "w") truncates the file; every write goes to the offset of the
\* writer's own descriptor, over what the file holds there, and past the end
\* leaves zero bytes in between.

\* The paths of the model and their characters
PathNames == {"d1", "d2"}
PathChars(path) == IF path = "d1" THEN <<"d", "1">> ELSE <<"d", "2">>

\* The text of json.dump(metas, ensure_ascii=False, indent=2): "[]", or the
\* records between "[\n" and "\n]", ",\n" between two of them.  A record is
\* its source and its content in 43 characters of keys, quotes and
\* indentation; the texts of the model hold no character json.dump escapes.
RecordOpen ==
    <<" ", " ", "{", "\n", " ", " ", " ", " ",
      "\"", "s", "o", "u", "r", "c", "e", "\"", ":", " ", "\"">>
RecordMiddle ==
    <<"\"", ",", "\n", " ", " ", " ", " ",
      "\"", "c", "o", "n", "t", "e", "n", "t", "\"", ":", " ", "\"">>
RecordClose == <<"\"", "\n", " ", " ", "}">>
JsonRecord(meta) ==
    RecordOpen \o PathChars(meta.source) \o RecordMiddle \o meta.content
    \o RecordClose
RECURSIVE JsonRecords(_)
JsonRecords(items) ==
    IF Len(items) = 1 THEN JsonRecord(items[1])
    ELSE JsonRecord(Head(items)) \o <<",", "\n">> \o JsonRecords(Tail(items))
JsonText(f) ==
    IF f.n = 0 THEN <<"[", "]">>
    ELSE <<"[", "\n">> \o JsonRecords(f.items) \o <<"\n", "]">>

\* The list whose json.dump is this text, when there is one
NotJson == [ok |-> FALSE, items |-> <<>>]
HasAt(chars, pos, lit) ==
    /\ pos >= 1
    /\ pos + Len(lit) - 1 <= Len(chars)
    /\ SubSeq(chars, pos, pos + Len(lit) - 1) = lit
QuoteAt(chars, pos) ==
    LET qs == {i \in pos..Len(chars) : chars[i] = "\""}
    IN  IF qs = {} THEN 0 ELSE CHOOSE i \in qs : \A j \in qs : i <= j
RECURSIVE ParseRecords(_, _, _)
ParseRecords(chars, pos, items) ==
    LET s == pos + Len(RecordOpen)
        q == QuoteAt(chars, s)
        c == q + Len(RecordMiddle)
        r == QuoteAt(chars, c)
        e == r + Len(RecordClose)
        path == SubSeq(chars, s, q - 1)
        source == CHOOSE p \in PathNames : PathChars(p) = path
        now == items \o <<[source |-> source, content |-> SubSeq(chars, c, r - 1)]>>
    IN  IF \/ ~HasAt(chars, pos, RecordOpen)
           \/ q = 0
           \/ ~HasAt(chars, q, RecordMiddle)
           \/ r = 0
           \/ ~HasAt(chars, r, RecordClose)
           \/ \A p \in PathNames : PathChars(p) # path
        THEN NotJson
        ELSE IF HasAt(chars, e, <<"\n", "]">>) /\ e + 1 = Len(chars)
        THEN [ok |-> TRUE, items |-> now]
        ELSE IF HasAt(chars, e, <<",", "\n">>)
        THEN ParseRecords(chars, e + 2, now)
        ELSE NotJson
ParseJson(chars) ==
    IF chars = <<"[", "]">> THEN [ok |-> TRUE, items |-> <<>>]
    ELSE IF HasAt(chars, 1, <<"[", "\n">>) THEN ParseRecords(chars, 3, <<>>)
    ELSE NotJson

\* The header of a .npy file of a small float32 matrix, and the bytes
\* write_index puts before the vectors of an IndexFlatIP
NpyHeaderBytes == 128
FaissHeaderBytes == 45

\* The runs of bytes
Text(chars) == [text |-> chars]
Floats(values) == [f32 |-> values]
ZeroBytes(n) == [zeros |-> n]
NpyHeader(shape) == [npy_header |-> shape]
FaissHeader(d, ntotal) == [faiss_header |-> <<d, ntotal>>]
Part(of, from, to) == [part |-> of, from |-> from, to |-> to]
EmptyFile == [bytes |-> <<>>]

\* The bytes of a run: a character of the model takes 1, a float32 takes 4
RunBytes(r) ==
    IF "text" \in DOMAIN r THEN Len(r.text)
    ELSE IF "f32" \in DOMAIN r THEN 4 * Len(r.f32)
    ELSE IF "zeros" \in DOMAIN r THEN r.zeros
    ELSE IF "npy_header" \in DOMAIN r THEN NpyHeaderBytes
    ELSE IF "faiss_header" \in DOMAIN r THEN FaissHeaderBytes
    ELSE r.to - r.from

NonEmpty(runs) == SelectSeq(runs, LAMBDA r : RunBytes(r) > 0)

RECURSIVE TotalBytes(_)
TotalBytes(runs) ==
    IF runs = <<>> THEN 0 ELSE RunBytes(Head(runs)) + TotalBytes(Tail(runs))

\* The bytes from+1..to of a run
Slice(r, from, to) ==
    NonEmpty(
        IF "text" \in DOMAIN r THEN <<Text(SubSeq(r.text, from + 1, to))>>
        ELSE IF "zeros" \in DOMAIN r THEN <<ZeroBytes(to - from)>>
        ELSE IF "f32" \in DOMAIN r
        THEN IF from \div 4 = to \div 4
             THEN <<Part(Floats(<<r.f32[from \div 4 + 1]>>), from % 4, to % 4)>>
             ELSE <<Part(Floats(<<r.f32[from \div 4 + 1]>>), from % 4,
                         IF from % 4 = 0 THEN 0 ELSE 4),
                    Floats(SubSeq(r.f32, (from + 3) \div 4 + 1, to \div 4)),
                    Part(IF to % 4 = 0 THEN Floats(<<>>)
                         ELSE Floats(<<r.f32[to \div 4 + 1]>>), 0, to % 4)>>
        ELSE IF "part" \in DOMAIN r
        THEN <<Part(r.part, r.from + from, r.from + to)>>
        ELSE IF from = 0 /\ to = RunBytes(r) THEN <<r>>
        ELSE <<Part(r, from, to)>>)

\* The first n bytes, and the bytes after the first n
RECURSIVE TakeBytes(_, _)
TakeBytes(runs, n) ==
    IF n <= 0 \/ runs = <<>> THEN <<>>
    ELSE LET h == Head(runs)
         IN  IF RunBytes(h) <= n
             THEN <<h>> \o TakeBytes(Tail(runs), n - RunBytes(h))
             ELSE Slice(h, 0, n)
RECURSIVE DropBytes(_, _)
DropBytes(runs, n) ==
    IF n <= 0 \/ runs = <<>> THEN runs
    ELSE LET h == Head(runs)
         IN  IF RunBytes(h) <= n
             THEN DropBytes(Tail(runs), n - RunBytes(h))
             ELSE Slice(h, n, RunBytes(h)) \o Tail(runs)

\* Two adjacent runs as one run, when they are one: text after text, values
\* after values, zeros after zeros, a part that continues a part
Joined(a, b) ==
    IF "text" \in DOMAIN a /\ "text" \in DOMAIN b THEN <<Text(a.text \o b.text)>>
    ELSE IF "f32" \in DOMAIN a /\ "f32" \in DOMAIN b THEN <<Floats(a.f32 \o b.f32)>>
    ELSE IF "zeros" \in DOMAIN a /\ "zeros" \in DOMAIN b
    THEN <<ZeroBytes(a.zeros + b.zeros)>>
    ELSE IF "part" \in DOMAIN a /\ "part" \in DOMAIN b
    THEN IF a.part = b.part /\ a.to = b.from
         THEN IF a.from = 0 /\ b.to = RunBytes(a.part) THEN <<a.part>>
              ELSE <<Part(a.part, a.from, b.to)>>
         ELSE <<a, b>>
    ELSE <<a, b>>

\* The runs in their one normal form
RECURSIVE Append1(_, _)
Append1(runs, r) ==
    IF runs = <<>> THEN <<r>>
    ELSE LET j == Joined(runs[Len(runs)], r)
         IN  IF Len(j) = 1 THEN Append1(SubSeq(runs, 1, Len(runs) - 1), j[1])
             ELSE runs \o <<r>>
RECURSIVE Merge(_, _)
Merge(done, runs) ==
    IF runs = <<>> THEN done ELSE Merge(Append1(done, Head(runs)), Tail(runs))

\* The bytes of a file
Content(f) ==
    IF f = None THEN <<>>
    ELSE IF "bytes" \in DOMAIN f THEN f.bytes
    ELSE IF "n" \in DOMAIN f THEN <<Text(JsonText(f))>>
    ELSE IF "shape" \in DOMAIN f
    THEN NonEmpty(<<NpyHeader(f.shape), Floats(f.data)>>)
    ELSE NonEmpty(<<FaissHeader(f.d, f.ntotal), Floats(f.codes)>>)

\* The values after a header, when values are all that follows it
ValuesAfter(runs) ==
    IF Len(runs) = 1 THEN [ok |-> TRUE, values |-> <<>>]
    ELSE IF Len(runs) = 2 /\ "f32" \in DOMAIN runs[2]
    THEN [ok |-> TRUE, values |-> runs[2].f32]
    ELSE [ok |-> FALSE, values |-> <<>>]

\* The file that holds these bytes: a whole output when they are byte for
\* byte what json.dump, np.save or write_index writes for some value
AsFile(runs) ==
    LET m == Merge(<<>>, NonEmpty(runs))
    IN  IF m = <<>> THEN EmptyFile
        ELSE IF "text" \in DOMAIN m[1]
        THEN IF Len(m) = 1 /\ ParseJson(m[1].text).ok
             THEN json_dump(ParseJson(m[1].text).items)
             ELSE [bytes |-> m]
        ELSE IF "npy_header" \in DOMAIN m[1]
        THEN IF /\ ValuesAfter(m).ok
                /\ Len(ValuesAfter(m).values)
                   = m[1].npy_header[1] * m[1].npy_header[2]
             THEN [shape |-> m[1].npy_header, data |-> ValuesAfter(m).values]
             ELSE [bytes |-> m]
        ELSE IF "faiss_header" \in DOMAIN m[1]
        THEN IF /\ ValuesAfter(m).ok
                /\ Len(ValuesAfter(m).values)
                   = m[1].faiss_header[1] * m[1].faiss_header[2]
             THEN [d |-> m[1].faiss_header[1], ntotal |-> m[1].faiss_header[2],
                   codes |-> ValuesAfter(m).values]
             ELSE [bytes |-> m]
        ELSE [bytes |-> m]

\* write(fd, bytes) at offset `offset` of file f; a write of no bytes leaves
\* the file as it is
pwrite(f, offset, bytes) ==
    LET old == Content(f)
        gap == offset - TotalBytes(old)
        before == IF gap > 0 THEN old \o <<ZeroBytes(gap)>>
                  ELSE TakeBytes(old, offset)
    IN  IF TotalBytes(bytes) = 0 THEN f
        ELSE AsFile(before \o bytes \o DropBytes(old, offset + TotalBytes(bytes)))

\* The output save writes to the vector file of the backend (lines 77-82)
vector_output(s) ==
    IF s.faiss_index # None THEN write_index(s.faiss_index)
    ELSE np_save(IF s.vectors # None THEN s.vectors ELSE Matrix(s.dim, <<>>))

\* lines 72-74: makedirs, and open(meta_path, "w") truncates meta.json
open_meta(d) == [d EXCEPT !.exists = TRUE, !.meta_json = EmptyFile]

\* line 75 and the end of the with block: the text json.dump produced is
\* smaller than the buffer of the file object and is written in one write,
\* at offset 0, when the file is closed
write_meta(s, d) ==
    [d EXCEPT !.meta_json = pwrite(@, 0, Content(json_dump(s.metas)))]

\* np.save and write_index open the vector file for writing: it is truncated
open_vectors(s, d) ==
    IF s.faiss_index # None THEN [d EXCEPT !.index_faiss = EmptyFile]
    ELSE [d EXCEPT !.vectors_npy = EmptyFile]

\* np.save writes the header of the array, flushed before the data
write_header(s, d) ==
    [d EXCEPT !.vectors_npy = pwrite(@, 0, <<NpyHeader(vector_output(s).shape)>>)]

\* np.save writes the data after its header; write_index writes the whole
\* index, smaller than the buffer of its FILE, when it closes the file
write_vectors(s, d) ==
    IF s.faiss_index # None
    THEN [d EXCEPT !.index_faiss = pwrite(@, 0, Content(vector_output(s)))]
    ELSE [d EXCEPT !.vectors_npy =
              pwrite(@, NpyHeaderBytes,
                     NonEmpty(<<Floats(vector_output(s).data)>>))]

\* The source directories of the model: none, one without documents, one
\* whose only document is blank, one document, two documents
Sources ==
    {NoSourceDir, SourceDir(<<>>), SourceDir(<<Doc("d1", <<" ">>)>>),
     SourceDir(<<Doc("d1", <<"a">>)>>),
     SourceDir(<<Doc("d1", <<"a", " ">>), Doc("d2", <<"a">>)>>)}

\* The arguments of run_ingest and what its environment has installed:
\* the source directory, cfg.chunk_size and cfg.chunk_overlap, the model that
\* cfg.embedding_model names (None: not available), whether faiss imports
IngestArgs ==
    {[source |-> src, chunk_size |-> c[1], chunk_overlap |-> c[2],
      model |-> m, faiss_ok |-> f] :
        src \in Sources, c \in {<<1, 0>>, <<2, 1>>, <<1, 1>>},
        m \in {None, SentenceTransformer(1, TRUE)}, f \in BOOLEAN}

\* The two runs that share the index directory
RunIds == {1, 2}

----------------------------------------------------------------------------
\* run_retrieve (app/pipelines/retrieve.py)

\* A metadata record is a dict: a record whose fields are its keys.
\* meta.get("content") and meta.get("source", "")
HasKey(meta, key) == key \in DOMAIN meta

\* The f-string of line 42: its prefix (the word for "source", written here
\* in English) and the source
SourceLabel(meta) == <<"Source: ", IF HasKey(meta, "source") THEN meta.source ELSE "">>

\* lines 37-42 with `if "content" in meta` for `if content`
context_of_without_truth_test(meta) ==
    IF HasKey(meta, "content") THEN meta.content ELSE SourceLabel(meta)

\* lines 37-42, the string appended for one record: `if content` is false
\* for a missing content and for the empty string
context_of(meta) ==
    IF HasKey(meta, "content") /\ meta.content # <<>> THEN meta.content
    ELSE SourceLabel(meta)

\* The embed_svc argument: an object whose embed([query]) is a (1, dim)
\* matrix.  The services of the model embed a query into the vector space
\* of the stored chunks (Embed).
QueryService(dim) == [dim |-> dim]
embed_query(embed_svc, query) == EmbedAll(embed_svc.dim, <<query>>)

\* run_retrieve: the outcomes [err, contexts, results, store] the call can
\* have: the exception raised (None: the call returns), the list returned,
\* and the locals `results` and `store`.  The function has no try.
run_retrieve(query, index_dir, embed_svc, top_k, faiss_ok) ==
    LET qvec == embed_query(embed_svc, query)
        store == load(new_store(faiss_ok, qvec.w), index_dir)
    IN  {[err |-> out.err,
          contexts |-> [i \in 1..Len(out.result) |-> context_of(out.result[i].meta)],
          results |-> out.result,
          store |-> store] : out \in search(store, qvec, top_k)}

\* Metadata records: of a chunk, without content, with empty content,
\* without content and source
Metas ==
    [full |-> Chunk("d1", <<"a">>), other |-> Chunk("d2", <<"a", " ">>),
     bare |-> [source |-> "d3"], empty |-> Chunk("d4", <<>>),
     foreign |-> [title |-> "t"]]

\* What save leaves in a new directory for an object filled by one add
saved_index(faiss_ok, dim, ls, metas) ==
    save(add(new_store(faiss_ok, dim), EmbedAll(dim, ls), metas).vs, EmptyDir)

\* The index directories of retrieval: none, an empty one, directories saved
\* by either backend in either width, and one whose meta.json was removed
RetrieveDirs ==
    {NoDir, EmptyDir,
     saved_index(FALSE, 2, <<"A", "B">>, <<Metas.full, Metas.bare>>),
     saved_index(TRUE, 2, <<"B", "A">>, <<Metas.empty, Metas.other>>),
     saved_index(TRUE, 1, <<"A", "B">>, <<Metas.full, Metas.foreign>>),
     saved_index(FALSE, 1, <<"C", "A">>, <<Metas.other, Metas.full>>),
     [saved_index(FALSE, 2, <<"A">>, <<Metas.full>>) EXCEPT !.meta_json = None]}

----------------------------------------------------------------------------
\* class ConversationMemory (app/memory/memory.py of the agent project)

\* Bounds of the model: max_messages, the number of items of a file found at
\* construction, the size argument of window
MaxMessages == 2
MaxFileLen == 3
MaxSize == 3

\* A message {role, content}; a JSON value that is not an object
Message(role, content) == [role |-> role, content |-> content]
JsonString == [json |-> "string"]
Messages == {Message("user", "a"), Message("assistant", "b")}

\* The file at file_path: absent; holding a JSON list; holding JSON that is
\* not a list; holding text that json.load rejects
NoFile == [isfile |-> FALSE]
ListFile(items) == [isfile |-> TRUE, valid |-> TRUE, islist |-> TRUE, items |-> items]
ObjectFile == [isfile |-> TRUE, valid |-> TRUE, islist |-> FALSE, items |-> <<>>]
TornFile == [isfile |-> TRUE, valid |-> FALSE, islist |-> FALSE, items |-> <<>>]

\* isinstance(m, dict)
IsDict(m) == m # JsonString

\* _load: the object after the call.  An exception of json.load is caught
\* and leaves messages as __init__ set it.
mem_load(m, file) ==
    IF ~file.isfile THEN m
    ELSE IF ~file.valid THEN m
    ELSE IF file.islist THEN [m EXCEPT !.messages = SelectSeq(file.items, IsDict)]
    ELSE m

\* __init__
new_memory(max_messages, file) ==
    mem_load([max_messages |-> max_messages, messages |-> <<>>], file)

\* _save: the file after the call.  io is what the file system lets the call
\* do: "ok"; "refused", makedirs or open raises and the file is as it was;
\* "torn", the write raises after open has truncated the file.  The
\* exception is caught.
mem_save(m, file, io) ==
    IF io = "ok" THEN ListFile(m.messages)
    ELSE IF io = "refused" THEN file
    ELSE TornFile

\* add: [cm, file], the object and the file after the call
mem_add(m, role, content, file, io) ==
    LET appended == Append(m.messages, Message(role, content))
        overflow == Len(appended) - m.max_messages
        kept == IF Len(appended) > m.max_messages
                THEN PySlice(appended, overflow, Len(appended))
                ELSE appended
        m1 == [m EXCEPT !.messages = kept]
    IN  [cm |-> m1, file |-> mem_save(m1, file, io)]

\* window: self.messages[-size:]
window(m, size) == PySlice(m.messages, 0 - size, Len(m.messages))

\* The files a first construction may find
InitFiles ==
    {NoFile, ObjectFile, TornFile}
    \cup {ListFile(items) : items \in SeqsUpTo(Messages \cup {JsonString}, MaxFileLen)}

----------------------------------------------------------------------------
\* The state machine

VARIABLES
    vs,     \* the VectorStore object: Unselected, or its fields
    disk,   \* the index directory
    last,   \* the last call made: its operation, arguments, outcome and
            \* the object before it
    sp,     \* a call of split_texts: its arguments, position and locals
    es,     \* the EmbeddingsService object and its last embed call
    runs,   \* the ingest runs: each one's arguments, position and locals
    cm,     \* the ConversationMemory object and its last call
    mem_file \* the file at the file_path of the ConversationMemory

vars == <<vs, disk, last, sp, es, runs, cm, mem_file>>

\* The variables of the vector index, of the conversation memory, and the
\* others
store_vars == <<vs, disk, last>>
memory_vars == <<cm, mem_file>>
pipeline_vars == <<sp, es, runs, memory_vars>>

\* No call of split_texts, no EmbeddingsService, no ingest run, no
\* ConversationMemory
Idle == [pc |-> "idle"]
NoRuns == [r \in RunIds |-> Idle]
NoMemory == cm = Idle /\ mem_file = NoFile
PipelineIdle == sp = Idle /\ es = Idle /\ runs = NoRuns /\ NoMemory

Init ==
    /\ vs = Unselected
    /\ disk \in InitDirs
    /\ last = [op |-> "none"]
    /\ PipelineIdle

\* VectorStore(dim)
Construct(faiss_ok, dim) ==
    /\ vs = Unselected
    /\ vs' = new_store(faiss_ok, dim)
    /\ last' = [op |-> "init", before |-> vs]
    /\ UNCHANGED disk
    /\ UNCHANGED pipeline_vars

\* vs.add(vectors, metas)
Add(a) ==
    /\ vs # Unselected
    /\ Len(vs.metas) + Len(a.metas) <= MaxRows
    /\ Len(StoredRows(vs)) + Len(a.vectors.rows) <= MaxRows
    /\ vs' = add(vs, a.vectors, a.metas).vs
    /\ last' = [op |-> "add", ndim |-> a.vectors.ndim, w |-> a.vectors.w,
                rows |-> Len(a.vectors.rows), n_metas |-> Len(a.metas),
                err |-> add(vs, a.vectors, a.metas).err, before |-> vs]
    /\ UNCHANGED disk
    /\ UNCHANGED pipeline_vars

\* vs.save(index_dir)
Save ==
    /\ vs # Unselected
    /\ disk' = save(vs, disk)
    /\ last' = [op |-> "save", err |-> None, before |-> vs]
    /\ UNCHANGED vs
    /\ UNCHANGED pipeline_vars

\* vs.load(index_dir)
Load ==
    /\ vs # Unselected
    /\ vs' = load(vs, disk)
    /\ last' = [op |-> "load", err |-> None, before |-> vs]
    /\ UNCHANGED disk
    /\ UNCHANGED pipeline_vars

\* vs.search(query_vec, top_k)
Search(q, k) ==
    /\ vs # Unselected
    /\ \E out \in search(vs, q, k) :
          last' = [op |-> "search", q |-> q, k |-> k, err |-> out.err,
                   result |-> out.result, before |-> vs,
                   q_after |-> after_search(vs, q).query_vec]
    /\ vs' = after_search(vs, q).vs
    /\ UNCHANGED disk
    /\ UNCHANGED pipeline_vars

Next ==
    \/ \E f \in BOOLEAN, d \in Dims : Construct(f, d)
    \/ \E a \in AddArgs : Add(a)
    \/ Save
    \/ Load
    \/ \E q \in Queries, k \in 0..MaxK : Search(q, k)

Spec == Init /\ [][Next]_vars

----------------------------------------------------------------------------
\* split_texts, statement by statement.  sp.windows records, for every chunk
\* appended, the document and the window it was cut from: it is not a
\* variable of the code and no statement reads it.

SplitInit ==
    /\ \E a \in SplitArgs :
          sp = [pc |-> "check", docs |-> a.docs, chunk_size |-> a.chunk_size,
                chunk_overlap |-> a.chunk_overlap, i |-> 0, start |-> 0,
                end |-> 0, chunks |-> <<>>, windows |-> <<>>, err |-> None]
    /\ vs = Unselected /\ disk = NoDir /\ last = [op |-> "none"]
    /\ es = Idle /\ runs = NoRuns /\ NoMemory

\* lines 30-35
SplitCheck ==
    /\ sp.pc = "check"
    /\ sp' = IF ParamError(sp.chunk_size, sp.chunk_overlap) # None
             THEN [sp EXCEPT !.pc = "raised",
                             !.err = ParamError(sp.chunk_size, sp.chunk_overlap)]
             ELSE [sp EXCEPT !.pc = "for"]
    /\ UNCHANGED <<store_vars, es, runs, memory_vars>>

\* lines 36-40: the next document
SplitNextDoc ==
    /\ sp.pc = "for" /\ sp.i < Len(sp.docs)
    /\ sp' = [sp EXCEPT !.pc = "while", !.i = @ + 1, !.start = 0,
                        !.end = sp.chunk_size]
    /\ UNCHANGED <<store_vars, es, runs, memory_vars>>

\* lines 41-46: one iteration of the while loop
SplitWindow ==
    /\ sp.pc = "while" /\ sp.start < Len(sp.docs[sp.i].text)
    /\ LET doc == sp.docs[sp.i]
           chunk == PySlice(doc.text, sp.start, sp.end)
           emit == StripNonEmpty(chunk)
       IN  sp' = [sp EXCEPT
                    !.chunks = IF emit THEN Append(@, Chunk(doc.path, chunk)) ELSE @,
                    !.windows = IF emit
                                THEN Append(@, [doc |-> sp.i, start |-> sp.start,
                                                end |-> PyIndex(sp.end, Len(doc.text))])
                                ELSE @,
                    !.start = NextStart(sp.end, sp.chunk_overlap),
                    !.end = NextStart(sp.end, sp.chunk_overlap) + sp.chunk_size]
    /\ UNCHANGED <<store_vars, es, runs, memory_vars>>

\* line 41: the while loop ends
SplitEndDoc ==
    /\ sp.pc = "while" /\ ~(sp.start < Len(sp.docs[sp.i].text))
    /\ sp' = [sp EXCEPT !.pc = "for"]
    /\ UNCHANGED <<store_vars, es, runs, memory_vars>>

\* lines 36, 47: no document is left, return chunks
SplitReturn ==
    /\ sp.pc = "for" /\ ~(sp.i < Len(sp.docs))
    /\ sp' = [sp EXCEPT !.pc = "done"]
    /\ UNCHANGED <<store_vars, es, runs, memory_vars>>

SplitNext ==
    \/ SplitCheck
    \/ SplitNextDoc
    \/ SplitWindow
    \/ SplitEndDoc
    \/ SplitReturn

SplitSpec == SplitInit /\ [][SplitNext]_vars

\* The call runs on until it returns or raises
SplitFairSpec == SplitSpec /\ WF_vars(SplitNext)

----------------------------------------------------------------------------
\* Vocabulary of the claims

Min(a, b) == IF a < b THEN a ELSE b

\* The vector file that load and save of object s use in directory d
OwnVectorFile(s, d) == IF s.faiss_index # None THEN d.index_faiss ELSE d.vectors_npy

\* As many vectors as metadata records, every vector of the declared width
WellFormed(s) ==
    /\ s # Unselected
    /\ Len(StoredRows(s)) = Len(s.metas)
    /\ StoredWidth(s) = s.dim

\* The errors raised by the explicit shape tests of add and search
DimensionMismatch ==
    {Error("ValueError", 53), Error("ValueError", 55), Error("ValueError", 120)}

\* The objects built by __init__ alone, or by __init__ and one add of N
\* chunks
BuiltStores ==
    {new_store(f, d) : f \in BOOLEAN, d \in Dims}
    \cup {add(new_store(f, d), EmbedAll(d, ls), ls).vs :
            f \in BOOLEAN, d \in Dims, ls \in SeqsUpTo(Labels, MaxRows)}

\* Directory d holds what save of object s writes
SavedIn(s, d) == save(s, d) = d

\* C1: in every reachable state the object holds as many vectors as metadata
\* records, and vector i is the embedding of the chunk of metadata record i.
C1_ParallelSequences ==
    vs # Unselected =>
        /\ Len(StoredRows(vs)) = Len(vs.metas)
        /\ \A i \in 1..Len(vs.metas) :
              StoredRows(vs)[i] = Embed(StoredWidth(vs), vs.metas[i])

\* C2: add raises the dimension-mismatch error, and stores nothing, when the
\* matrix is not of the object's width or the metadata count is not the row
\* count; every other add returns and appends its M vectors and M records.
C2_AddChecksShapes ==
    last.op = "add" =>
        LET b == last.before
            bad == last.ndim # 2 \/ last.w # b.dim \/ last.n_metas # last.rows
        IN  /\ bad => last.err \in DimensionMismatch /\ vs = b
            /\ ~bad => /\ last.err = None
                       /\ Len(vs.metas) = Len(b.metas) + last.rows
                       /\ Len(StoredRows(vs)) = Len(StoredRows(b)) + last.rows

\* C3, as claimed: after load from a directory that holds the save of a built
\* object X of the same dim, every search has the outcomes it has on X.
C3_RoundTripAnyBackend ==
    last.op = "load" =>
        \A X \in BuiltStores :
            (X.dim = vs.dim /\ SavedIn(X, disk)) =>
                \A q \in Queries, k \in 0..MaxK : search(vs, q, k) = search(X, q, k)

\* C3, amended: the same when the loading object has the backend of X.
C3_RoundTripSameBackend ==
    last.op = "load" =>
        \A X \in BuiltStores :
            (X.dim = vs.dim /\ Backend(X) = Backend(vs) /\ SavedIn(X, disk)) =>
                \A q \in Queries, k \in 0..MaxK : search(vs, q, k) = search(X, q, k)

\* A new object has loaded the save of a built object of two records, and a
\* search on it returns a record.
C3_Witness ==
    /\ last.op = "load"
    /\ last.before \in BuiltStores /\ last.before.metas = <<>>
    /\ \E X \in BuiltStores :
          /\ X.dim = vs.dim /\ Backend(X) = Backend(vs) /\ SavedIn(X, disk)
          /\ Len(X.metas) = 2
          /\ \E q \in Queries : \E o \in search(vs, q, 1) : Len(o.result) = 1

\* C4: load never raises; without meta.json the object has no metadata
\* afterwards, and without the vector file of its backend it holds no vectors
\* and is of width dim.
C4_LoadMissingFiles ==
    last.op = "load" =>
        /\ last.err = None
        /\ disk.meta_json = None => vs.metas = <<>>
        /\ OwnVectorFile(vs, disk) = None =>
              StoredRows(vs) = <<>> /\ StoredWidth(vs) = vs.dim

\* The score search gives stored vector i of object s for query q
Score(s, q, i) ==
    IF s.faiss_index # None THEN Dot(s.faiss_index.xb[i], q.rows[1])
    ELSE Sims(s, q)[i]

\* C5: a search with a query of the object's shape returns at most min(k, N)
\* (score, meta) pairs in non-increasing order of score, each a stored record
\* with its score, no record left out scoring higher than one returned; and
\* with k = 1 and the query one of N orthogonal stored unit vectors, it
\* returns that record with score 1.
C5_SearchTopK ==
    (last.op = "search" /\ QueryShapeOk(last.before, last.q)) =>
        LET b == last.before
            r == last.result
            N == Len(StoredRows(b))
        IN  /\ last.err = None
            /\ Len(r) <= Min(last.k, N)
            /\ \A i, j \in 1..Len(r) : i < j => r[i].score >= r[j].score
            /\ \E idx \in [1..Len(r) -> 1..N] :
                  /\ \A i, j \in 1..Len(r) : i # j => idx[i] # idx[j]
                  /\ \A j \in 1..Len(r) :
                        /\ idx[j] <= Len(b.metas)
                        /\ r[j] = [score |-> Score(b, last.q, idx[j]),
                                   meta |-> b.metas[idx[j]]]
                  /\ \A j \in 1..Len(r) :
                        \A i \in 1..N :
                            (\A jj \in 1..Len(r) : idx[jj] # i) =>
                                Score(b, last.q, i) <= r[j].score
            /\ \A i \in 1..N :
                  ( /\ last.k = 1
                    /\ StoredRows(b)[i] = last.q.rows[1]
                    /\ \A j \in 1..N : IsNormalized(StoredRows(b)[j])
                    /\ \A j, jj \in 1..N :
                          j # jj => Dot(StoredRows(b)[j], StoredRows(b)[jj]) = 0 )
                  => r = <<[score |-> 1, meta |-> b.metas[i]]>>

\* The result of the NumPy search when equal scores keep insertion order
StableOrder(s) ==
    CHOOSE p \in DescendingOrders(s) :
        \A i, j \in 1..Len(s) : (i < j /\ s[p[i]] = s[p[j]]) => p[i] < p[j]
StableResult(s, q, k) ==
    IF s.vectors = None \/ Len(s.metas) = 0 THEN <<>>
    ELSE LET top_idx == Prefix(StableOrder(Sims(s, q)), k)
         IN  [i \in 1..Len(top_idx) |->
                [score |-> Sims(s, q)[top_idx[i]], meta |-> s.metas[top_idx[i]]]]

\* C6: the NumPy search orders records of equal similarity by insertion
\* order, and truncation to k keeps the earlier of them.
C6_TiesByInsertionOrder ==
    ( /\ last.op = "search"
      /\ Backend(last.before) = "Naive"
      /\ WellFormed(last.before)
      /\ QueryShapeOk(last.before, last.q) )
    => /\ last.err = None
       /\ last.result = StableResult(last.before, last.q, last.k)

\* The NumPy object given the add calls that built faiss object s
NaiveTwin(s) ==
    IF s.metas = <<>> THEN new_store(FALSE, s.dim)
    ELSE add(new_store(FALSE, s.dim), Matrix(s.dim, s.faiss_index.xb), s.metas).vs

MetaOrder(r) == [i \in 1..Len(r) |-> r[i].meta]

\* C7: after the same adds of normalized vectors, a faiss search with a
\* normalized query returns the metadata in the order the NumPy search
\* returns them.
C7_BackendsAgree ==
    ( /\ last.op = "search"
      /\ Backend(last.before) = "Optimized"
      /\ WellFormed(last.before)
      /\ \A i \in 1..Len(StoredRows(last.before)) :
            IsNormalized(StoredRows(last.before)[i])
      /\ QueryShapeOk(last.before, last.q)
      /\ IsNormalized(last.q.rows[1]) )
    => \A o \in search(NaiveTwin(last.before), last.q, last.k) :
          /\ last.err = None
          /\ o.err = None
          /\ MetaOrder(last.result) = MetaOrder(o.result)

\* A new object, or a new object after load from no directory or an empty one
EmptyIndexes ==
    {new_store(f, d) : f \in BOOLEAN, d \in Dims}
    \cup {load(new_store(f, d), dir) :
            f \in BOOLEAN, d \in Dims, dir \in {NoDir, EmptyDir}}

\* C8: search on an index with no records returns the empty sequence and
\* does not raise, for every k >= 0.
C8_EmptyIndexSearch ==
    ( /\ last.op = "search"
      /\ last.before \in EmptyIndexes
      /\ QueryShapeOk(last.before, last.q) )
    => last.err = None /\ last.result = <<>>

\* C9: a search whose query is not of the object's width raises the
\* dimension-mismatch error of the shape test, whatever the object holds and
\* whatever k is, and leaves the object as it was.
C9_QueryWidthChecked ==
    (last.op = "search" /\ last.q.w # last.before.dim) =>
        /\ last.err = Error("ValueError", 120)
        /\ last.err \in DimensionMismatch
        /\ last.result = <<>>
        /\ vs = last.before

\* A populated object was searched with a query of another width.
C9_Witness ==
    /\ last.op = "search"
    /\ last.q.ndim = 2 /\ Len(last.q.rows) = 1
    /\ last.q.w # last.before.dim
    /\ last.k > 0
    /\ Len(StoredRows(last.before)) = 2 /\ Len(last.before.metas) = 2
    /\ last.err = Error("ValueError", 120)

\* C10: construction takes the object from Unselected to Optimized or Naive,
\* and no later call changes its backend.
C10_BackendFixed ==
    [][ /\ vs = Unselected => Backend(vs') \in {"Optimized", "Naive"}
        /\ vs # Unselected => Backend(vs') = Backend(vs) ]_vars

\* A faiss object whose index was replaced by the one load read
C10_Witness ==
    /\ last.op = "load"
    /\ Backend(vs) = "Optimized"
    /\ vs.faiss_index # last.before.faiss_index

----------------------------------------------------------------------------
\* EmbeddingsService objects and their embed calls.  es.seen records the
\* (text, vector) of every row the fallback has returned so far, by
\* any object: it is not a variable of the code and no statement reads it.

EsUnconstructed == [pc |-> "unconstructed", seen |-> {}, last |-> [op |-> "none"]]

EmbedInit ==
    /\ es = EsUnconstructed
    /\ vs = Unselected /\ disk = NoDir /\ last = [op |-> "none"]
    /\ sp = Idle /\ runs = NoRuns /\ NoMemory

\* EmbeddingsService(model_name): a new object (in place of the one before)
EsConstruct(model) ==
    /\ LET r == new_service(model)
       IN  es' = IF r.err # None
                 THEN [pc |-> "unconstructed", seen |-> es.seen,
                       last |-> [op |-> "init", model |-> model, err |-> r.err]]
                 ELSE [pc |-> "constructed", model |-> r.svc.model,
                       dim |-> r.svc.dim, seen |-> es.seen,
                       last |-> [op |-> "init", model |-> model, err |-> None]]
    /\ UNCHANGED <<store_vars, sp, runs, memory_vars>>

\* es.embed(texts)
EsEmbed(texts) ==
    /\ es.pc = "constructed"
    /\ LET r == embed(es, texts)
           rows == IF r.err = None /\ es.model = None
                   THEN {[text |-> texts[i], vector |-> r.out.rows[i]] :
                            i \in 1..Len(texts)}
                   ELSE {}
       IN  es' = [es EXCEPT !.seen = @ \cup rows,
                            !.last = [op |-> "embed", texts |-> texts,
                                      err |-> r.err, out |-> r.out,
                                      seen_before |-> es.seen]]
    /\ UNCHANGED <<store_vars, sp, runs, memory_vars>>

EmbedNext ==
    \/ \E m \in Models : EsConstruct(m)
    \/ \E t \in EmbedArgs : EsEmbed(t)

EmbedSpec == EmbedInit /\ [][EmbedNext]_vars

----------------------------------------------------------------------------
\* Two runs of run_ingest into one index directory, as two processes.  The
\* system calls that touch the file system are steps of their own: the
\* truncation of a file at open and each write.  wrote, last_write and
\* overlapped record which files a run has written, whether the latest
\* change of the directory was its own, and whether its save and the save of
\* another run were under way at the same time: they are not variables of
\* the code and no statement reads them.

\* The run has opened meta.json and has not yet returned from save
InSave(r) ==
    runs[r].pc \in {"write_meta", "open_vectors", "write_header", "write_vectors"}

\* The runs after a step of save by run r that takes it to pc: begins says
\* that the step is the first of its save, wrote which file it completes
AfterSaveStep(r, pc, wrote, begins) ==
    [q \in RunIds |->
        IF q = r
        THEN [runs[q] EXCEPT
                !.pc = pc,
                !.wrote = @ \o wrote,
                !.last_write = TRUE,
                !.overlapped = @ \/ (begins /\ \E o \in RunIds \ {r} : InSave(o))]
        ELSE IF runs[q] = Idle THEN Idle
        ELSE [runs[q] EXCEPT !.last_write = FALSE,
                             !.overlapped = @ \/ (begins /\ InSave(q))]]

IngestInit ==
    /\ runs = NoRuns
    /\ disk = NoDir
    /\ vs = Unselected /\ last = [op |-> "none"]
    /\ sp = Idle /\ es = Idle /\ NoMemory

\* run_ingest(source_dir, index_dir, cfg) is called
IngestStart(r, a) ==
    /\ runs[r] = Idle
    /\ \A q \in RunIds : q < r => runs[q] # Idle
    /\ runs' = [runs EXCEPT ![r] =
                  [pc |-> "makedirs", args |-> a, docs |-> <<>>, chunks |-> <<>>,
                   store |-> None, err |-> None, wrote |-> <<>>,
                   last_write |-> FALSE, overlapped |-> FALSE]]
    /\ UNCHANGED <<store_vars, sp, es, memory_vars>>

\* line 30: os.makedirs(index_dir, exist_ok=True)
IngestMakedirs(r) ==
    /\ runs[r].pc = "makedirs"
    /\ disk' = [disk EXCEPT !.exists = TRUE]
    /\ runs' = [runs EXCEPT ![r].pc = "load"]
    /\ UNCHANGED <<vs, last, sp, es, memory_vars>>

\* lines 33-36: load_documents, and the return when there is no document
IngestLoad(r) ==
    /\ runs[r].pc = "load"
    /\ LET l == load_documents(runs[r].args.source)
       IN  runs' = [runs EXCEPT ![r] =
                      IF l.err # None THEN [@ EXCEPT !.pc = "raised", !.err = l.err]
                      ELSE IF l.docs = <<>> THEN [@ EXCEPT !.pc = "done"]
                      ELSE [@ EXCEPT !.pc = "prepare", !.docs = l.docs]]
    /\ UNCHANGED <<store_vars, sp, es, memory_vars>>

\* lines 39-50: split, embed, construct the store, add
IngestPrepare(r) ==
    /\ runs[r].pc = "prepare"
    /\ LET p == prepare(runs[r].docs, runs[r].args)
       IN  runs' = [runs EXCEPT ![r] =
                      IF p.err # None
                      THEN [@ EXCEPT !.pc = "raised", !.err = p.err,
                                     !.chunks = p.chunks]
                      ELSE [@ EXCEPT !.pc = "open_meta", !.chunks = p.chunks,
                                     !.store = p.store]]
    /\ UNCHANGED <<store_vars, sp, es, memory_vars>>

\* line 51, save lines 72-74: meta.json is opened for writing
IngestOpenMeta(r) ==
    /\ runs[r].pc = "open_meta"
    /\ disk' = open_meta(disk)
    /\ runs' = AfterSaveStep(r, "write_meta", <<>>, TRUE)
    /\ UNCHANGED <<vs, last, sp, es, memory_vars>>

\* save line 75: meta.json is written and closed
IngestWriteMeta(r) ==
    /\ runs[r].pc = "write_meta"
    /\ disk' = write_meta(runs[r].store, disk)
    /\ runs' = AfterSaveStep(r, "open_vectors", <<"meta">>, FALSE)
    /\ UNCHANGED <<vs, last, sp, es, memory_vars>>

\* save line 79 or 82: the vector file is opened for writing
IngestOpenVectors(r) ==
    /\ runs[r].pc = "open_vectors"
    /\ disk' = open_vectors(runs[r].store, disk)
    /\ runs' = AfterSaveStep(r, IF runs[r].store.faiss_index # None
                                THEN "write_vectors" ELSE "write_header",
                             <<>>, FALSE)
    /\ UNCHANGED <<vs, last, sp, es, memory_vars>>

\* save line 82: np.save writes the header
IngestWriteHeader(r) ==
    /\ runs[r].pc = "write_header"
    /\ disk' = write_header(runs[r].store, disk)
    /\ runs' = AfterSaveStep(r, "write_vectors", <<>>, FALSE)
    /\ UNCHANGED <<vs, last, sp, es, memory_vars>>

\* save line 79 or 82: the vectors are written and the file is closed; save
\* and run_ingest return
IngestWriteVectors(r) ==
    /\ runs[r].pc = "write_vectors"
    /\ disk' = write_vectors(runs[r].store, disk)
    /\ runs' = AfterSaveStep(r, "done", <<"vectors">>, FALSE)
    /\ UNCHANGED <<vs, last, sp, es, memory_vars>>

IngestNext ==
    \/ \E r \in RunIds, a \in IngestArgs : IngestStart(r, a)
    \/ \E r \in RunIds : IngestMakedirs(r)
    \/ \E r \in RunIds : IngestLoad(r)
    \/ \E r \in RunIds : IngestPrepare(r)
    \/ \E r \in RunIds : IngestOpenMeta(r)
    \/ \E r \in RunIds : IngestWriteMeta(r)
    \/ \E r \in RunIds : IngestOpenVectors(r)
    \/ \E r \in RunIds : IngestWriteHeader(r)
    \/ \E r \in RunIds : IngestWriteVectors(r)

IngestSpec == IngestInit /\ [][IngestNext]_vars

----------------------------------------------------------------------------
\* Calls of run_retrieve on an index directory.  last records the call, with
\* the locals of the function.

RetrieveInit ==
    /\ disk \in RetrieveDirs
    /\ vs = Unselected /\ last = [op |-> "none"]
    /\ PipelineIdle

\* run_retrieve(query, index_dir, embed_svc, top_k)
Retrieve(query, dim, top_k, faiss_ok) ==
    /\ \E out \in run_retrieve(query, disk, QueryService(dim), top_k, faiss_ok) :
          last' = [op |-> "retrieve", query |-> query, dim |-> dim,
                   top_k |-> top_k, faiss_ok |-> faiss_ok, err |-> out.err,
                   contexts |-> out.contexts, results |-> out.results,
                   store |-> out.store]
    /\ UNCHANGED <<vs, disk>>
    /\ UNCHANGED pipeline_vars

RetrieveNext ==
    \E query \in Labels, dim \in Dims, top_k \in 0..MaxK, faiss_ok \in BOOLEAN :
        Retrieve(query, dim, top_k, faiss_ok)

RetrieveSpec == RetrieveInit /\ [][RetrieveNext]_vars

----------------------------------------------------------------------------
\* A ConversationMemory and the file it persists to.  Construction may
\* happen again (a new process, possibly with another max_messages) and
\* finds the file as the calls before left it.  cm.last records the last
\* call and the messages before it.

MemoryInit ==
    /\ cm = Idle
    /\ mem_file \in InitFiles
    /\ vs = Unselected /\ disk = NoDir /\ last = [op |-> "none"]
    /\ sp = Idle /\ es = Idle /\ runs = NoRuns

\* ConversationMemory(max_messages, file_path)
MemConstruct(max_messages) ==
    /\ LET m == new_memory(max_messages, mem_file)
       IN  cm' = [pc |-> "constructed", max_messages |-> m.max_messages,
                  messages |-> m.messages, last |-> [op |-> "init"]]
    /\ UNCHANGED <<mem_file, store_vars, sp, es, runs>>

\* cm.add(role, content)
MemAdd(role, content, io) ==
    /\ cm # Idle
    /\ LET r == mem_add(cm, role, content, mem_file, io)
       IN  /\ cm' = [r.cm EXCEPT !.last = [op |-> "add",
                                           message |-> Message(role, content),
                                           before |-> cm.messages]]
           /\ mem_file' = r.file
    /\ UNCHANGED <<store_vars, sp, es, runs>>

\* cm.window(size)
MemWindow(size) ==
    /\ cm # Idle
    /\ cm' = [cm EXCEPT !.last = [op |-> "window", size |-> size,
                                  result |-> window(cm, size),
                                  before |-> cm.messages]]
    /\ UNCHANGED <<mem_file, store_vars, sp, es, runs>>

MemoryNext ==
    \/ \E n \in 1..MaxMessages : MemConstruct(n)
    \/ \E m \in Messages, io \in {"ok", "refused", "torn"} :
          MemAdd(m.role, m.content, io)
    \/ \E size \in 0..MaxSize : MemWindow(size)

MemorySpec == MemoryInit /\ [][MemoryNext]_vars

----------------------------------------------------------------------------
\* Vocabulary of the splitter's claims

\* The configuration error of split_texts
ConfigError == {Error("ValueError", 31), Error("ValueError", 33)}

ValidParams(chunk_size, chunk_overlap) ==
    chunk_size > 0 /\ chunk_overlap >= 0 /\ chunk_overlap < chunk_size

RECURSIVE ConcatAll(_)
ConcatAll(ss) == IF ss = <<>> THEN <<>> ELSE Head(ss) \o ConcatAll(Tail(ss))

\* The number of s = 0, step, 2*step, ... with s < n: ceil(n / step)
NumWindows(n, step) == (n + step - 1) \div step

\* The window text[s : s + chunk_size]
Window(text, s, chunk_size) == SubSeq(text, s + 1, Min(s + chunk_size, Len(text)))

Blank(w) == \A i \in 1..Len(w) : w[i] \in Whitespace

\* The windows of a document in ascending order of s, the blank ones left out
WindowsOf(doc, chunk_size, chunk_overlap) ==
    LET step == chunk_size - chunk_overlap
        all == [k \in 1..NumWindows(Len(doc.text), step) |->
                  Chunk(doc.path, Window(doc.text, (k - 1) * step, chunk_size))]
    IN  SelectSeq(all, LAMBDA c : ~Blank(c.content))

SplitEnded == sp.pc \in {"done", "raised"}

\* C13: split_texts raises the configuration error, with no chunk produced,
\* exactly when chunk_size <= 0, chunk_overlap < 0 or chunk_overlap >=
\* chunk_size, and raises nothing for any other pair.
C13_ConfigErrorExactly ==
    LET bad == \/ sp.chunk_size <= 0
               \/ sp.chunk_overlap < 0
               \/ sp.chunk_overlap >= sp.chunk_size
    IN  sp.pc # "check" =>
            /\ bad <=> sp.pc = "raised"
            /\ sp.pc = "raised" => sp.err \in ConfigError /\ sp.chunks = <<>>
            /\ sp.pc # "raised" => sp.err = None

\* A call with documents, chunk_size > 0 and chunk_overlap = chunk_size has
\* raised.
C13_Witness ==
    /\ sp.pc = "raised"
    /\ sp.chunk_size > 0 /\ sp.chunk_overlap = sp.chunk_size
    /\ sp.docs # <<>> /\ sp.docs[1].text # <<>>

\* C14: with valid parameters the chunks returned are, document by document,
\* the windows text[s : s + chunk_size] for s = 0, step, 2*step, ... < len(text)
\* in ascending order, without the windows that are blank; and the scenario
\* returns "abcdefghij", "ijklmno".
C14_ChunksAreWindows ==
    sp.pc = "done" =>
        /\ sp.chunks =
              ConcatAll([i \in 1..Len(sp.docs) |->
                           WindowsOf(sp.docs[i], sp.chunk_size, sp.chunk_overlap)])
        /\ [docs |-> sp.docs, chunk_size |-> sp.chunk_size,
             chunk_overlap |-> sp.chunk_overlap] = Scenario
           => sp.chunks =
                <<Chunk("d1", <<"a", "b", "c", "d", "e", "f", "g", "h", "i", "j">>),
                  Chunk("d1", <<"i", "j", "k", "l", "m", "n", "o">>)>>

\* A call with chunk_overlap > 0 has returned two chunks or more, having
\* dropped a blank window.
C14_Witness ==
    /\ sp.pc = "done"
    /\ sp.chunk_overlap > 0
    /\ Len(sp.chunks) >= 2
    /\ Len(sp.chunks) < NumWindows(Len(sp.docs[1].text),
                                   sp.chunk_size - sp.chunk_overlap)

\* The windows the chunks of document i were cut from, in the order of the
\* chunks
ChunkWindows(i) == SelectSeq(sp.windows, LAMBDA w : w.doc = i)

Covered(i, p) ==
    \E j \in 1..Len(ChunkWindows(i)) :
        ChunkWindows(i)[j].start <= p /\ p < ChunkWindows(i)[j].end

\* The two chunks share the characters from the start of the later one to
\* the end of the earlier one: chunk_overlap of them, or as many as the text
\* has left
OverlapAtBoundary(earlier, later, n) ==
    earlier.end - later.start = Min(sp.chunk_overlap, n - later.start)

\* C15, as claimed: the windows of the chunks of a document cover every
\* character position of its text, and of two consecutive chunks the later
\* starts one step after the earlier and overlaps it at that boundary.
C15_ChunksCoverText ==
    sp.pc = "done" =>
        \A i \in 1..Len(sp.docs) :
            LET n == Len(sp.docs[i].text)
                ws == ChunkWindows(i)
            IN  /\ \A p \in 0..(n - 1) : Covered(i, p)
                /\ \A j \in 1..(Len(ws) - 1) :
                      /\ ws[j + 1].start = ws[j].start + sp.chunk_size - sp.chunk_overlap
                      /\ OverlapAtBoundary(ws[j], ws[j + 1], n)

\* C15, amended: the windows of the chunks cover every position that lies in
\* a window which is not blank; two consecutive chunks are a whole number of
\* steps apart, with only blank windows between them, and when they are one
\* step apart they overlap at that boundary.
C15_ChunksCoverNonBlank ==
    sp.pc = "done" =>
        \A i \in 1..Len(sp.docs) :
            LET text == sp.docs[i].text
                n == Len(text)
                step == sp.chunk_size - sp.chunk_overlap
                ws == ChunkWindows(i)
            IN  /\ \A p \in 0..(n - 1) :
                      (\E k \in 0..(NumWindows(n, step) - 1) :
                          /\ k * step <= p /\ p < k * step + sp.chunk_size
                          /\ ~Blank(Window(text, k * step, sp.chunk_size)))
                      => Covered(i, p)
                /\ \A j \in 1..(Len(ws) - 1) :
                      /\ ws[j + 1].start > ws[j].start
                      /\ (ws[j + 1].start - ws[j].start) % step = 0
                      /\ \A s \in (ws[j].start + 1)..(ws[j + 1].start - 1) :
                            s % step = 0 => Blank(Window(text, s, sp.chunk_size))
                      /\ ws[j + 1].start = ws[j].start + step
                         => OverlapAtBoundary(ws[j], ws[j + 1], n)

\* A call with chunk_overlap > 0 has returned three chunks of one document:
\* two one step apart, two with a dropped window between them.
C15_Witness ==
    /\ sp.pc = "done"
    /\ sp.chunk_overlap > 0
    /\ \E j \in 1..(Len(ChunkWindows(1)) - 1) :
          ChunkWindows(1)[j + 1].start
            = ChunkWindows(1)[j].start + sp.chunk_size - sp.chunk_overlap
    /\ \E j \in 1..(Len(ChunkWindows(1)) - 1) :
          ChunkWindows(1)[j + 1].start
            > ChunkWindows(1)[j].start + sp.chunk_size - sp.chunk_overlap

\* C16: with valid parameters the call ends; every iteration of the while
\* loop moves the window start forward; and a document of n characters
\* contributes at most ceil(n / (chunk_size - chunk_overlap)) chunks.
C16_SplitTerminates ==
    /\ <>SplitEnded
    /\ [][(sp.pc = "while" /\ sp'.pc = "while") => sp'.start > sp.start]_vars
    /\ [](sp.pc = "done" =>
            \A i \in 1..Len(sp.docs) :
                Len(ChunkWindows(i))
                  <= NumWindows(Len(sp.docs[i].text),
                                sp.chunk_size - sp.chunk_overlap))

\* A call has returned after four iterations of the loop on one document,
\* each of which gave a chunk.
C16_Witness ==
    /\ sp.pc = "done"
    /\ Len(sp.docs) = 1
    /\ Len(sp.chunks) = 4
    /\ NumWindows(Len(sp.docs[1].text), sp.chunk_size - sp.chunk_overlap) = 4

----------------------------------------------------------------------------
\* Vocabulary of the claims about EmbeddingsService

\* D: the width of the vectors an object returns
OutputWidth(svc) == IF svc.model # None THEN svc.model.d ELSE svc.dim

\* The vector an object gives text t embedded alone
VectorOf(svc, t) == embed(svc, <<t>>).out.rows[1]

\* The strategy that produced the outcome of an embed call: only the fallback
\* raises and only the fallback returns draws of a seeded generator
UsedStrategy(call) ==
    IF call.err # None THEN "Fallback"
    ELSE IF call.out.ndim = 1 THEN "ModelBacked"
    ELSE IF "seed" \in DOMAIN call.out.rows[1][1] THEN "Fallback"
    ELSE "ModelBacked"

\* C17: embed of N texts (N = 0 included) returns, with either strategy, a
\* matrix of N rows and D columns whose row i is the vector of text i, D
\* being the width of the object.
C17_EmbedShape ==
    es.last.op = "embed" =>
        LET N == Len(es.last.texts)
            D == OutputWidth(es)
        IN  /\ es.last.err = None
            /\ es.last.out.ndim = 2
            /\ Len(es.last.out.rows) = N
            /\ es.last.out.w = D
            /\ \A i \in 1..N :
                  /\ Len(es.last.out.rows[i]) = D
                  /\ es.last.out.rows[i] = VectorOf(es, es.last.texts[i])

\* C18: every fallback row returned so far for a text, by any object, in any
\* call and at any position, is the same vector; it is the vector a new
\* object gives the text embedded alone.
C18_FallbackDeterministic ==
    /\ \A a, b \in es.seen : a.text = b.text => a.vector = b.vector
    /\ \A a \in es.seen : a.vector = VectorOf(new_service(None).svc, a.text)

\* A fallback call has returned, in second place after another text, the
\* vector of a text that an earlier call had embedded.
C18_Witness ==
    /\ es.last.op = "embed" /\ es.last.err = None
    /\ es.pc = "constructed" /\ es.model = None
    /\ Len(es.last.texts) = 2
    /\ es.last.texts[1] # es.last.texts[2]
    /\ \E a \in es.last.seen_before : a.text = es.last.texts[2]

\* C19: construction does not raise; it ends in the fallback when the model
\* cannot be constructed and in the model-backed strategy when it can; every
\* embed call keeps the strategy of the object and is served by it.
C19_StrategyFixed ==
    [][ /\ es'.last.op = "init" =>
              /\ es'.last.err = None
              /\ es'.pc = "constructed"
              /\ es'.last.model = None => Strategy(es') = "Fallback"
              /\ es'.last.model # None => Strategy(es') = "ModelBacked"
        /\ es'.last.op = "embed" =>
              /\ Strategy(es') = Strategy(es)
              /\ UsedStrategy(es'.last) = Strategy(es) ]_vars

\* An object constructed without a model has served an embed call of two
\* texts.
C19_Witness ==
    /\ es.pc = "constructed" /\ es.model = None
    /\ es.last.op = "embed" /\ es.last.err = None
    /\ Len(es.last.texts) = 2
    /\ UsedStrategy(es.last) = "Fallback"

----------------------------------------------------------------------------
\* Vocabulary of the claims about run_ingest and the index directory

Started(r) == runs[r] # Idle
Saved(r) == Started(r) /\ runs[r].pc = "done" /\ runs[r].wrote # <<>>
SaveInProgress == \E r \in RunIds : InSave(r)
SavesOverlapped == \E r \in RunIds : Started(r) /\ runs[r].overlapped

\* The run whose write to the directory is the latest
LastWriter == CHOOSE r \in RunIds : Started(r) /\ runs[r].last_write

\* The rows of the vector file of directory d (of index.faiss when both
\* files are there)
RowsOnDisk(d) ==
    IF d.index_faiss # None THEN read_index(d.index_faiss).xb
    ELSE np_load(d.vectors_npy).rows

\* C11: when the saves made into the directory so far, one after the other,
\* have completed, the directory holds meta.json and exactly one of
\* index.faiss and vectors.npy, the one of the backend of the latest save,
\* and row i of it is the vector of the content of metadata record i.
C11_OneVectorFile ==
    ((\E r \in RunIds : Saved(r)) /\ ~SaveInProgress /\ ~SavesOverlapped) =>
        LET w == runs[LastWriter]
            svc == new_service(w.args.model).svc
        IN  /\ disk.meta_json # None
            /\ (disk.index_faiss # None) # (disk.vectors_npy # None)
            /\ OwnVectorFile(w.store, disk) # None
            /\ Len(RowsOnDisk(disk)) = Len(json_load(disk.meta_json))
            /\ \A i \in 1..Len(json_load(disk.meta_json)) :
                  RowsOnDisk(disk)[i]
                    = VectorOf(svc, json_load(disk.meta_json)[i].content)

\* C12: once the saves of both runs have completed, the directory holds
\* what the save of the last writer writes: its meta.json and the vector
\* file of its backend.
C12_LastWriterWins ==
    (\A r \in RunIds : Saved(r)) => SavedIn(runs[LastWriter].store, disk)

\* The run found documents and valid parameters, and the splitter gave no
\* chunk
NoChunks(r) ==
    /\ runs[r].args.source.isdir
    /\ runs[r].args.source.docs # <<>>
    /\ split_texts(runs[r].args.source.docs, runs[r].args.chunk_size,
                   runs[r].args.chunk_overlap)
         = [err |-> None, chunks |-> <<>>]

\* No document or no chunk
NothingToIndex(r) ==
    runs[r].args.source.isdir /\ (runs[r].args.source.docs = <<>> \/ NoChunks(r))

\* C20: a run that has nothing to index and has ended has returned without
\* raising, having written neither meta.json nor a vector file.
C20_NoChunksNoIndex ==
    \A r \in RunIds :
        (Started(r) /\ NothingToIndex(r) /\ runs[r].pc \in {"done", "raised"}) =>
            /\ runs[r].pc = "done"
            /\ runs[r].err = None
            /\ runs[r].wrote = <<>>

\* The rows of vector file f of the backend of object s
RowsOf(s, f) == IF s.faiss_index # None THEN read_index(f).xb ELSE np_load(f).rows

\* The run has returned after its save, no other run has written to the
\* directory since, and no save of another run overlapped its own
SavedAlone(r) == Saved(r) /\ runs[r].last_write /\ ~runs[r].overlapped

\* C21: after a run that saved, the directory holds one record per chunk of
\* the chunker, in chunk order: metadata record i is the {source, content}
\* of chunk i and row i of the vector file of the run's backend is the
\* embedding of the content of chunk i; meta.json was written before the
\* vector file, from the object that add had filled.
C21_IndexHoldsChunks ==
    \A r \in RunIds :
        SavedAlone(r) =>
            LET a == runs[r].args
                chunks == split_texts(a.source.docs, a.chunk_size,
                                      a.chunk_overlap).chunks
                svc == new_service(a.model).svc
                metas == json_load(disk.meta_json)
                rows == RowsOf(runs[r].store, OwnVectorFile(runs[r].store, disk))
            IN  /\ runs[r].err = None
                /\ runs[r].wrote = <<"meta", "vectors">>
                /\ Len(metas) = Len(chunks)
                /\ Len(rows) = Len(chunks)
                /\ \A i \in 1..Len(chunks) :
                      /\ metas[i] = Chunk(chunks[i].source, chunks[i].content)
                      /\ rows[i] = VectorOf(svc, chunks[i].content)
                /\ runs[r].store.metas = metas
                /\ StoredRows(runs[r].store) = rows

\* A run has saved the two chunks of two documents, the first one cut from a
\* longer text, after another run had saved
C21_Witness ==
    \E r \in RunIds :
        /\ SavedAlone(r)
        /\ Len(runs[r].args.source.docs) = 2
        /\ Len(runs[r].chunks) = 2
        /\ runs[r].chunks[1].content # runs[r].args.source.docs[1].text
        /\ \E o \in RunIds \ {r} : Saved(o)

\* The run has returned or raised
Ended(r) == Started(r) /\ runs[r].pc \in {"done", "raised"}

\* The not-found error of load_documents
NotFoundError == Error("FileNotFoundError", 30)

\* What add raises in a run of arguments a, None when it returns or when the
\* run does not reach it
AddErrorOf(a) ==
    LET s == split_texts(a.source.docs, a.chunk_size, a.chunk_overlap)
        e == embed(new_service(a.model).svc,
                   [i \in 1..Len(s.chunks) |-> s.chunks[i].content])
    IN  IF ~a.source.isdir \/ a.source.docs = <<>> \/ s.err # None THEN None
        ELSE IF e.err # None THEN None
        ELSE IF e.out.ndim # 2 THEN None
        ELSE add(new_store(a.faiss_ok, e.out.w), e.out, s.chunks).err

\* The errors the steps of a run of arguments a raise when called on their
\* own
StepErrorsOf(a) ==
    {load_documents(a.source).err,
     split_texts(a.source.docs, a.chunk_size, a.chunk_overlap).err,
     Error("ValueError", 73), Error("IndexError", 49), AddErrorOf(a)} \ {None}

\* A run that raises raises an error of one of its steps, as the step raised
\* it, and the dimension-mismatch error of add whenever add raises one
RunHasNoHandler(r) ==
    /\ runs[r].pc = "raised" => runs[r].err \in StepErrorsOf(runs[r].args)
    /\ AddErrorOf(runs[r].args) \in DimensionMismatch =>
          runs[r].pc = "raised" /\ runs[r].err = AddErrorOf(runs[r].args)

\* C24, as claimed: a run that has ended has raised the not-found error if
\* source_dir is not a directory and the configuration error if source_dir
\* is one and the chunk parameters are invalid; no error of a step, the
\* dimension-mismatch error of add included, is caught or replaced.
C24_ValidationErrorsPropagate ==
    \A r \in RunIds :
        Ended(r) =>
            LET a == runs[r].args
            IN  /\ ~a.source.isdir =>
                      runs[r].pc = "raised" /\ runs[r].err = NotFoundError
                /\ (a.source.isdir /\ ~ValidParams(a.chunk_size, a.chunk_overlap)) =>
                      runs[r].pc = "raised" /\ runs[r].err \in ConfigError
                /\ RunHasNoHandler(r)

\* C24, amended: the configuration error is raised when source_dir holds at
\* least one document; a run that finds no document returns before the
\* parameters are looked at.
C24_ValidationErrorsPropagateWithDocs ==
    \A r \in RunIds :
        Ended(r) =>
            LET a == runs[r].args
            IN  /\ ~a.source.isdir =>
                      runs[r].pc = "raised" /\ runs[r].err = NotFoundError
                /\ (a.source.isdir /\ a.source.docs # <<>>
                    /\ ~ValidParams(a.chunk_size, a.chunk_overlap)) =>
                      runs[r].pc = "raised" /\ runs[r].err \in ConfigError
                /\ (a.source.isdir /\ a.source.docs = <<>>) =>
                      runs[r].pc = "done" /\ runs[r].err = None
                /\ RunHasNoHandler(r)

\* One run has raised the not-found error and the other, given documents
\* and chunk_overlap = chunk_size, the configuration error.
C24_Witness ==
    \E r, o \in RunIds :
        /\ Ended(r) /\ runs[r].err = NotFoundError
        /\ Ended(o) /\ runs[o].err \in ConfigError
        /\ runs[o].args.source.docs # <<>>
        /\ runs[o].args.chunk_overlap = runs[o].args.chunk_size

\* C29: a run whose source_dir is not a directory raises the not-found
\* error and leaves the file system as it was: while it is the only run
\* made, the index directory does not exist.
C29_MissingSourceTouchesNothing ==
    \A r \in RunIds :
        (Started(r) /\ ~runs[r].args.source.isdir
         /\ \A o \in RunIds \ {r} : ~Started(o)) =>
            /\ disk = NoDir
            /\ Ended(r) => runs[r].pc = "raised" /\ runs[r].err = NotFoundError

----------------------------------------------------------------------------
\* The claims about run_retrieve

\* The record has a content to show: the key is there and its value is not
\* the empty string
ContentPresent(meta) == "content" \in DOMAIN meta /\ Len(meta.content) > 0

\* C22: a call of run_retrieve that returns returns one string per record
\* that search returned, in the order of search, which is by non-increasing
\* score, and at most top_k of them; the string of a record is its content
\* when it has one and the label of its source when it has none.
C22_ContextsFollowSearch ==
    (last.op = "retrieve" /\ last.err = None) =>
        LET r == last.results
            c == last.contexts
        IN  /\ [err |-> None, result |-> r]
                  \in search(last.store, EmbedAll(last.dim, <<last.query>>),
                              last.top_k)
            /\ \A i, j \in 1..Len(r) : i < j => r[i].score >= r[j].score
            /\ Len(c) = Len(r)
            /\ Len(c) <= last.top_k
            /\ \A i \in 1..Len(r) :
                  /\ ContentPresent(r[i].meta) => c[i] = r[i].meta.content
                  /\ ~ContentPresent(r[i].meta) =>
                        c[i] = <<"Source: ", IF "source" \in DOMAIN r[i].meta
                                             THEN r[i].meta.source ELSE "">>

\* A call has returned two strings, one a content and one a label, the
\* label for a record whose content is the empty string.
C22_Witness ==
    /\ last.op = "retrieve" /\ last.err = None
    /\ Len(last.contexts) = 2
    /\ \E i, j \in 1..2 :
          /\ ContentPresent(last.results[i].meta)
          /\ "content" \in DOMAIN last.results[j].meta
          /\ ~ContentPresent(last.results[j].meta)
          /\ last.contexts[j] = <<"Source: ", "d4">>

\* The directory does not exist, or holds none of the index files
NoIndexIn(d) == d.meta_json = None /\ d.index_faiss = None /\ d.vectors_npy = None

\* C23: run_retrieve on a directory that does not exist or holds no index
\* file returns the empty list without raising, for every query, every
\* top_k >= 0 and either backend.
C23_NoIndexNoContexts ==
    (last.op = "retrieve" /\ NoIndexIn(disk)) =>
        last.err = None /\ last.contexts = <<>>

----------------------------------------------------------------------------
\* The claims about ConversationMemory

\* The last n elements of a list, in their order
LastN(xs, n) == SubSeq(xs, Len(xs) - n + 1, Len(xs))

\* C25: a constructed ConversationMemory never holds more than max_messages
\* messages, whatever file construction found and whatever add calls
\* followed; what add keeps is the newest messages, the new one last.
C25_AtMostMaxMessages ==
    cm # Idle =>
        /\ Len(cm.messages) <= cm.max_messages
        /\ cm.last.op = "add" =>
              cm.messages
                = LastN(Append(cm.last.before, cm.last.message),
                        Min(cm.max_messages, Len(cm.last.before) + 1))

\* C26: window(size), size >= 0, returns the last min(size, len(messages))
\* messages in their order (none for size 0) and leaves the stored messages
\* as they were.
C26_WindowIsLastMessages ==
    (cm # Idle /\ cm.last.op = "window") =>
        /\ cm.last.result
              = LastN(cm.last.before, Min(cm.last.size, Len(cm.last.before)))
        /\ cm.last.size = 0 => cm.last.result = <<>>
        /\ cm.messages = cm.last.before

----------------------------------------------------------------------------
\* The later claims about VectorStore

\* C27: every stored vector of a constructed object has exactly dim
\* components, whatever sequence of construction, add and load produced the
\* object, load from a vector file of another width included.
C27_StoredVectorsHaveDim ==
    vs # Unselected =>
        /\ StoredWidth(vs) = vs.dim
        /\ \A i \in 1..Len(StoredRows(vs)) : Len(StoredRows(vs)[i]) = vs.dim

\* C28: an add call that raises leaves the stored vectors and the stored
\* metadata as they were before the call.
C28_FailedAddChangesNothing ==
    (last.op = "add" /\ last.err # None) =>
        /\ StoredRows(vs) = StoredRows(last.before)
        /\ vs.metas = last.before.metas
        /\ vs = last.before

\* C30: a search call, returning or raising, leaves the stored vectors, the
\* stored metadata and the caller's query vector as they were; the same
\* search repeated now has the outcomes it had, the outcome of the call
\* among them.
C30_SearchReadOnly ==
    last.op = "search" =>
        /\ StoredRows(vs) = StoredRows(last.before)
        /\ vs.metas = last.before.metas
        /\ vs = last.before
        /\ last.q_after = last.q
        /\ search(vs, last.q_after, last.k) = search(last.before, last.q, last.k)
        /\ [err |-> last.err, result |-> last.result]
              \in search(vs, last.q_after, last.k)

\* The Naive backend has ranked two stored vectors, one of them not
\* normalized, for a query of their width.
C30_Witness ==
    /\ last.op = "search" /\ last.err = None
    /\ Backend(vs) = "Naive"
    /\ Len(last.result) = 2
    /\ \E i \in 1..Len(StoredRows(vs)) : ~IsNormalized(StoredRows(vs)[i])

====
